---------------------------- MODULE Spec2Model ----------------------------
(***************************************************************************)
(* A model of the WalkDarkly shadow-math library (src/math/src/lib.rs).    *)
(*                                                                         *)
(* The library is four pure functions over f64.  Every property of         *)
(* interest (the 1e-10 tie-break on the tangent, infinity, NaN, overflow)  *)
(* is a property of IEEE-754 binary64 arithmetic, so the model carries     *)
(* binary64 values exactly: a finite value is sign * m * 2^e with m an     *)
(* arbitrary-precision natural kept as 14-bit limbs, and every operation   *)
(* rounds to nearest, ties to even, with gradual underflow and overflow    *)
(* to infinity.  f64::tan is a libm call; it is modelled by its values     *)
(* on the angles the model feeds to it.                                    *)
(***************************************************************************)
EXTENDS Integers, Sequences, FiniteSets, TLC

(***************************************************************************)
(* Arbitrary-precision naturals: little-endian sequences of limbs in base  *)
(* 2^14, without leading (most significant) zero limbs; zero is << >>.     *)
(***************************************************************************)
Base == 2^14

Pow2(n) == 2^n

Limb(a, i) == IF i >= 1 /\ i <= Len(a) THEN a[i] ELSE 0

RECURSIVE BNorm(_)
BNorm(a) == IF a = << >> THEN a
            ELSE IF a[Len(a)] = 0 THEN BNorm(SubSeq(a, 1, Len(a) - 1))
            ELSE a

RECURSIVE SmallBitLen(_)
SmallBitLen(n) == IF n = 0 THEN 0 ELSE 1 + SmallBitLen(n \div 2)

\* bits per limb
LimbBits == SmallBitLen(Base) - 1

BLen(a) == IF a = << >> THEN 0
           ELSE LimbBits * (Len(a) - 1) + SmallBitLen(a[Len(a)])

RECURSIVE BCmpFrom(_, _, _)
BCmpFrom(a, b, i) ==
    IF i = 0 THEN 0
    ELSE IF a[i] < b[i] THEN -1
    ELSE IF a[i] > b[i] THEN 1
    ELSE BCmpFrom(a, b, i - 1)

BCmp(a, b) ==
    IF Len(a) < Len(b) THEN -1
    ELSE IF Len(a) > Len(b) THEN 1
    ELSE BCmpFrom(a, b, Len(a))

RECURSIVE BCarry(_, _, _, _)
\* Propagates carries through the column sums cols[i..], appending to acc.
BCarry(cols, i, carry, acc) ==
    IF i > Len(cols)
    THEN IF carry = 0 THEN acc ELSE BCarry(cols, i, carry \div Base, Append(acc, carry % Base))
    ELSE LET t == cols[i] + carry
         IN  BCarry(cols, i + 1, t \div Base, Append(acc, t % Base))

BAdd(a, b) ==
    LET n == IF Len(a) > Len(b) THEN Len(a) ELSE Len(b)
    IN  BNorm(BCarry([i \in 1..n |-> Limb(a, i) + Limb(b, i)], 1, 0, << >>))

RECURSIVE BBorrow(_, _, _, _, _)
BBorrow(a, b, i, borrow, acc) ==
    IF i > Len(a) THEN acc
    ELSE LET t == a[i] - Limb(b, i) - borrow
         IN  IF t < 0 THEN BBorrow(a, b, i + 1, 1, Append(acc, t + Base))
             ELSE BBorrow(a, b, i + 1, 0, Append(acc, t))

\* a - b for a >= b
BSub(a, b) == BNorm(BBorrow(a, b, 1, 0, << >>))

\* a * b for a, b of at most four limbs (56 bits), which covers every mantissa
BMul(a, b) ==
    IF a = << >> \/ b = << >> THEN << >>
    ELSE BNorm(BCarry([k \in 1..(Len(a) + Len(b)) |->
                          Limb(a, 1) * Limb(b, k)     + Limb(a, 2) * Limb(b, k - 1)
                        + Limb(a, 3) * Limb(b, k - 2) + Limb(a, 4) * Limb(b, k - 3)],
                      1, 0, << >>))

\* a * 2^n
BShl(a, n) ==
    IF a = << >> \/ n = 0 THEN a
    ELSE LET q == n \div LimbBits
             r == n % LimbBits
             hi == Pow2(LimbBits - r)
             bits == [i \in 1..(Len(a) + 1) |->
                        (Limb(a, i) % hi) * Pow2(r) + (Limb(a, i - 1) \div hi)]
         IN  BNorm([i \in 1..q |-> 0] \o bits)

\* floor(a / 2^n)
BShr(a, n) ==
    IF n = 0 THEN a
    ELSE LET q == n \div LimbBits
             r == n % LimbBits
         IN  IF q >= Len(a) THEN << >>
             ELSE BNorm([i \in 1..(Len(a) - q) |->
                           (Limb(a, i + q) \div Pow2(r))
                         + (Limb(a, i + q + 1) % Pow2(r)) * Pow2(LimbBits - r)])

\* bit n (from 0) of a
BBit(a, n) == (Limb(a, (n \div LimbBits) + 1) \div Pow2(n % LimbBits)) % 2

\* TRUE iff some bit of a below bit n is set
BLowBits(a, n) ==
    LET q == n \div LimbBits
        r == n % LimbBits
    IN  \/ \E i \in 1..q : Limb(a, i) # 0
        \/ Limb(a, q + 1) % Pow2(r) # 0

BOdd(a) == Limb(a, 1) % 2 = 1

BFromNat(n) == BNorm(<<n % Base, (n \div Base) % Base, n \div (Base * Base)>>)

(***************************************************************************)
(* IEEE-754 binary64.  A value is a record: k is "fin", "inf" or "nan";    *)
(* s is the sign bit; a finite value is (-1)^s * m * 2^e, kept canonical:  *)
(* a normal number has 2^52 <= m < 2^53 and MinExp <= e <= MaxExp, a       *)
(* subnormal has 0 < m < 2^52 and e = MinExp, zero has m = 0, e = MinExp.  *)
(* Canonical records are equal exactly when the f64 bit patterns are.      *)
(***************************************************************************)
Precision == 53

MinExp == 0 - 1074

MaxExp == 971

NaN == [k |-> "nan", s |-> 0, m |-> << >>, e |-> 0]

Inf(s) == [k |-> "inf", s |-> s, m |-> << >>, e |-> 0]

INFINITY == Inf(0)

Fin(s, m, e) == [k |-> "fin", s |-> s, m |-> m, e |-> e]

Zero(s) == Fin(s, << >>, MinExp)

IsFinite(x) == x.k = "fin"

IsNaN(x) == x.k = "nan"

IsZero(x) == x.k = "fin" /\ x.m = << >>

\* (-1)^s * q * 2^e2 for a mantissa q already rounded to at most 53 bits:
\* an exponent past the largest overflows to infinity
Pack(s, q, e2) == IF e2 > MaxExp THEN Inf(s) ELSE Fin(s, q, e2)

\* a mantissa that rounding up carried to 2^53 is renormalised
Renorm(s, q, e2) ==
    IF BLen(q) > Precision THEN Pack(s, BShr(q, 1), e2 + 1) ELSE Pack(s, q, e2)

\* q is m without its low h + 1 bits: round up when the dropped part is more
\* than half a unit of q, or exactly half and q is odd (ties to even)
RoundQ(s, m, q, e2, h, sticky) ==
    IF BBit(m, h) = 1 /\ (sticky \/ BLowBits(m, h) \/ BOdd(q))
    THEN Renorm(s, BAdd(q, <<1>>), e2)
    ELSE Pack(s, q, e2)

RoundTo(s, m, e, sticky, e2) ==
    IF e2 <= e THEN Pack(s, BShl(m, e - e2), e2)
    ELSE RoundQ(s, m, BShr(m, e2 - e), e2, e2 - e - 1, sticky)

\* The f64 nearest to (-1)^s * (m + frac) * 2^e, where 0 <= frac < 1 and
\* sticky says whether frac > 0: round to nearest, ties to even.  The result's
\* exponent keeps 53 bits of m, but is never below MinExp (gradual underflow).
Round(s, m, e, sticky) ==
    IF m = << >> THEN Zero(s)
    ELSE RoundTo(s, m, e, sticky,
                 IF e + BLen(m) - Precision < MinExp THEN MinExp
                 ELSE e + BLen(m) - Precision)

\* -1, 0, 1 as |a| <, =, > |b|, for finite a and b
MagCmp(a, b) ==
    IF a.e < b.e THEN -1
    ELSE IF a.e > b.e THEN 1
    ELSE BCmp(a.m, b.m)

\* f64 `<`: false when either side is NaN; -0.0 < 0.0 is false
FLt(a, b) ==
    IF a.k = "nan" \/ b.k = "nan" THEN FALSE
    ELSE IF a.k = "inf" THEN a.s = 1 /\ ~(b.k = "inf" /\ b.s = 1)
    ELSE IF b.k = "inf" THEN b.s = 0
    ELSE IF IsZero(a) /\ IsZero(b) THEN FALSE
    ELSE IF a.s # b.s THEN a.s = 1
    ELSE IF a.s = 0 THEN MagCmp(a, b) < 0
    ELSE MagCmp(a, b) > 0

\* f64 `==`: NaN equals nothing, -0.0 equals 0.0
FEq(a, b) ==
    IF a.k = "nan" \/ b.k = "nan" THEN FALSE
    ELSE IF IsZero(a) /\ IsZero(b) THEN TRUE
    ELSE a = b

FLe(a, b) == FLt(a, b) \/ FEq(a, b)

FAbs(x) == IF x.k = "nan" THEN x ELSE [x EXCEPT !.s = 0]

FNeg(x) == IF x.k = "nan" THEN x ELSE [x EXCEPT !.s = 1 - x.s]

\* sa * am + sb * bm at exponent e, for magnitudes aligned to e; c is BCmp(am, bm)
AddAligned(sa, sb, am, bm, e, c) ==
    Round(IF sa = sb \/ c > 0 THEN sa ELSE IF c < 0 THEN sb ELSE 0,
          IF sa = sb THEN BAdd(am, bm)
          ELSE IF c >= 0 THEN BSub(am, bm) ELSE BSub(bm, am),
          e, FALSE)

AddFinite(a, b, e) ==
    AddAligned(a.s, b.s, BShl(a.m, a.e - e), BShl(b.m, b.e - e), e,
               BCmp(BShl(a.m, a.e - e), BShl(b.m, b.e - e)))

FAdd(a, b) ==
    IF a.k = "nan" \/ b.k = "nan" THEN NaN
    ELSE IF a.k = "inf" THEN IF b.k = "inf" /\ b.s # a.s THEN NaN ELSE a
    ELSE IF b.k = "inf" THEN b
    ELSE IF IsZero(a) /\ IsZero(b) THEN Zero(IF a.s = 1 /\ b.s = 1 THEN 1 ELSE 0)
    ELSE IF IsZero(a) THEN b
    ELSE IF IsZero(b) THEN a
    \* an operand below a quarter ulp of the other does not change it
    ELSE IF a.e - b.e > Precision + 2 THEN a
    ELSE IF b.e - a.e > Precision + 2 THEN b
    ELSE AddFinite(a, b, IF a.e < b.e THEN a.e ELSE b.e)

FSub(a, b) == FAdd(a, FNeg(b))

Xor(s, t) == IF s = t THEN 0 ELSE 1

FMul(a, b) ==
    IF a.k = "nan" \/ b.k = "nan" THEN NaN
    ELSE IF a.k = "inf" \/ b.k = "inf"
         THEN IF IsZero(a) \/ IsZero(b) THEN NaN ELSE Inf(Xor(a.s, b.s))
    ELSE Round(Xor(a.s, b.s), BMul(a.m, b.m), a.e + b.e, FALSE)

\* Schoolbook long division in base 2^14, for a divisor d of four limbs with
\* its top bit set and rem < d * Base.  The digit floor(rem / d) is the one
\* candidate c with c * d <= rem < (c + 1) * d; the estimate from the leading
\* limbs is at most two too large (Knuth, TAOCP 4.3.1, Theorem B).
DigitFits(rem, d, p) == BCmp(p, rem) <= 0 /\ BCmp(BSub(rem, p), d) < 0

DivDigit(rem, d, hi) ==
    CHOOSE c \in {hi, hi - 1, hi - 2} :
        c >= 0 /\ DigitFits(rem, d, BMul(BFromNat(c), d))

DivStep(rem, d) ==
    DivDigit(rem, d,
             IF (Limb(rem, 5) * Base + Limb(rem, 4)) \div d[4] > Base - 1 THEN Base - 1
             ELSE (Limb(rem, 5) * Base + Limb(rem, 4)) \div d[4])

DivRem(rem, d, q) == BSub(rem, BMul(BFromNat(q), d))

RECURSIVE LongDiv(_, _, _, _)
LongDivNext(rem, d, n, digits, q) ==
    IF n = 1 THEN <<BNorm(<<q>> \o digits), DivRem(rem, d, q) # << >> >>
    ELSE LongDiv(BShl(DivRem(rem, d, q), LimbBits), d, n - 1, <<q>> \o digits)

\* <<floor(rem * Base^(n-1) / d), whether a remainder is left>>; digits holds
\* the quotient digits found so far
LongDiv(rem, d, n, digits) == LongDivNext(rem, d, n, digits, DivStep(rem, d))

\* a / b for finite nonzero a and b, whose mantissas are first shifted to
\* exactly 56 bits: la and lb are the shifts
DivFinite(a, b, la, lb, qr) ==
    Round(Xor(a.s, b.s), qr[1], (a.e - la) - (b.e - lb) - 4 * LimbBits, qr[2])

FDiv(a, b) ==
    IF a.k = "nan" \/ b.k = "nan" THEN NaN
    ELSE IF a.k = "inf" THEN IF b.k = "inf" THEN NaN ELSE Inf(Xor(a.s, b.s))
    ELSE IF b.k = "inf" THEN Zero(Xor(a.s, b.s))
    ELSE IF IsZero(b) THEN IF IsZero(a) THEN NaN ELSE Inf(Xor(a.s, b.s))
    ELSE IF IsZero(a) THEN Zero(Xor(a.s, b.s))
    ELSE DivFinite(a, b, 4 * LimbBits - BLen(a.m), 4 * LimbBits - BLen(b.m),
                   LongDiv(BShl(a.m, 4 * LimbBits - BLen(a.m)),
                           BShl(b.m, 4 * LimbBits - BLen(b.m)), 5, << >>))

\* i32 -> f64 (From<i32> for f64), exact
FromInt(n) == Round(IF n < 0 THEN 1 ELSE 0, BFromNat(IF n < 0 THEN 0 - n ELSE n), 0, FALSE)

(***************************************************************************)
(* Numeric arguments.  Every parameter of the library is generic over      *)
(* Into<f64>: callers pass integers (i32) or floats (f64), and the         *)
(* function converts with .into() before computing.                        *)
(***************************************************************************)
I32(n) == [t |-> "i32", v |-> n]

F64(x) == [t |-> "f64", v |-> x]

Into(x) == IF x.t = "i32" THEN FromInt(x.v) ELSE x.v

\* 1.0
One == Fin(0, <<0, 0, 0, 1024>>, 0 - 52)

\* std::f64::consts::PI = 3.141592653589793 = 0x1.921fb54442d18p+1
\*                       = PiMant * 2^-51
PiMant == <<11544, 4368, 8117, 1608>>

PI == Fin(0, PiMant, 0 - 51)

\* PI / 180.0 = 0.017453292519943295 = 0x1.1df46a2529d39p-6
RadsPerDeg == Fin(0, <<7481, 2378, 13418, 1143>>, 0 - 58)

\* the literal 1e-10 of approx_equal = 0x1.b7cdfd9d7bdbbp-34
Tolerance == Fin(0, <<15803, 10078, 3581, 1759>>, 0 - 86)

\* f64::MAX = 1.7976931348623157e308
MAX == Fin(0, <<16383, 16383, 16383, 2047>>, MaxExp)

\* the smallest positive f64, 5e-324 (subnormal)
MinPositive == Fin(0, <<1>>, MinExp)

(***************************************************************************)
(* f64::tan calls the platform's libm.  TanTable lists <<x, tan(x)>> with  *)
(* the value glibc's tan returns (which is also the correctly rounded      *)
(* value) for every angle that reaches tan in this model.                  *)
(***************************************************************************)
TanTable ==
  <<
    \* tan(0.0) = 0.0
    <<Fin(0, << >>, 0 - 1074),
      Fin(0, << >>, 0 - 1074)>>,
    \* tan(-0.0) = -0.0
    <<Fin(1, << >>, 0 - 1074),
      Fin(1, << >>, 0 - 1074)>>,
    \* tan(PI/4 = 0.7853981633974483) = 0.9999999999999999
    <<Fin(0, <<11544, 4368, 8117, 1608>>, 0 - 53),
      Fin(0, <<16383, 16383, 16383, 2047>>, 0 - 53)>>,
    \* tan(PI/2 = 1.5707963267948966) = 1.633123935319537e+16
    <<Fin(0, <<11544, 4368, 8117, 1608>>, 0 - 52),
      Fin(0, <<3509, 12487, 10599, 1856>>, 1)>>,
    \* tan(PI = 3.141592653589793) = -1.2246467991473532e-16
    <<Fin(0, <<11544, 4368, 8117, 1608>>, 0 - 51),
      Fin(1, <<7175, 3153, 8803, 1129>>, 0 - 105)>>,
    \* tan(2*PI = 6.283185307179586) = -2.4492935982947064e-16
    <<Fin(0, <<11544, 4368, 8117, 1608>>, 0 - 50),
      Fin(1, <<7175, 3153, 8803, 1129>>, 0 - 104)>>,
    \* tan(-PI/4 = -0.7853981633974483) = -0.9999999999999999
    <<Fin(1, <<11544, 4368, 8117, 1608>>, 0 - 53),
      Fin(1, <<16383, 16383, 16383, 2047>>, 0 - 53)>>,
    \* tan(3*PI/4 = 2.356194490192345) = -1.0000000000000002
    <<Fin(0, <<8658, 15564, 6087, 1206>>, 0 - 51),
      Fin(1, <<1, 0, 0, 1024>>, 0 - 52)>>,
    \* tan(1e-10) = 1e-10
    <<Fin(0, <<15803, 10078, 3581, 1759>>, 0 - 86),
      Fin(0, <<15803, 10078, 3581, 1759>>, 0 - 86)>>,
    \* tan(-1e-10) = -1e-10
    <<Fin(1, <<15803, 10078, 3581, 1759>>, 0 - 86),
      Fin(1, <<15803, 10078, 3581, 1759>>, 0 - 86)>>,
    \* tan(9.999999999999999e-11) = 9.999999999999999e-11
    <<Fin(0, <<15802, 10078, 3581, 1759>>, 0 - 86),
      Fin(0, <<15802, 10078, 3581, 1759>>, 0 - 86)>>,
    \* tan(1e6*PI = 3141592.653589793) = -2.231912181360871e-10
    <<Fin(0, <<5265, 3747, 16069, 1533>>, 0 - 31),
      Fin(1, <<5779, 6202, 3452, 1963>>, 0 - 85)>>,
    \* tan(22.776546738526) = 1.0     (22.776546738526 = PI/4 + 7*PI in f64)
    <<Fin(0, <<2270, 4471, 11452, 1457>>, 0 - 48),
      Fin(0, <<0, 0, 0, 1024>>, 0 - 52)>>,
    \* tan(45.0) = 1.6197751905438615
    <<Fin(0, <<0, 0, 0, 1440>>, 0 - 47),
      Fin(0, <<8445, 3984, 10646, 1658>>, 0 - 52)>>,
    \* tan(90.0) = -1.995200412208242
    <<Fin(0, <<0, 0, 0, 1440>>, 0 - 46),
      Fin(1, <<9955, 4569, 1396, 2043>>, 0 - 52)>>,
    \* tan(180.0) = 1.3386902103511544
    <<Fin(0, <<0, 0, 0, 1440>>, 0 - 45),
      Fin(0, <<12262, 13371, 13414, 1370>>, 0 - 52)>>,
    \* tan(360.0) = -3.380140413960958
    <<Fin(0, <<0, 0, 0, 1440>>, 0 - 44),
      Fin(1, <<3390, 15035, 10352, 1730>>, 0 - 51)>>,
    \* tan(-45.0) = -1.6197751905438615
    <<Fin(1, <<0, 0, 0, 1440>>, 0 - 47),
      Fin(1, <<8445, 3984, 10646, 1658>>, 0 - 52)>>,
    \* tan(135.0) = -0.08871575677006045
    <<Fin(0, <<0, 0, 0, 1080>>, 0 - 45),
      Fin(1, <<8445, 10206, 8502, 1453>>, 0 - 56)>>
  >>

\* theta.tan()
Tan(x) == TanTable[CHOOSE i \in 1..Len(TanTable) : TanTable[i][1] = x][2]

(***************************************************************************)
(* The library.                                                            *)
(***************************************************************************)
\* approx_equal with the tolerance itself counted as equal (`<=` for `<`)
approx_equal_inclusive(a, b) ==
    LET abs_diff == FAbs(FSub(Into(a), Into(b)))
    IN  FLe(abs_diff, Tolerance)

\* approx_equal without a tolerance (`==` on the two values)
approx_equal_exact(a, b) == FEq(Into(a), Into(b))

approx_equal(a, b) ==
    LET abs_diff == FAbs(FSub(Into(a), Into(b)))
    IN  FLt(abs_diff, Tolerance)

\* fully_shaded_len with the tolerance applied to the angle, not to its tangent
fully_shaded_len_frame_angle_test(a1, a2, th) ==
    LET t == Tan(Into(th))
    IN  IF approx_equal(th, F64(Zero(0)))
        THEN [tan |-> t, branch |-> "infinite", ret |-> INFINITY]
        ELSE [tan |-> t, branch |-> "finite",
              ret |-> FMul(FAbs(FDiv(One, t)), FSub(Into(a1), Into(a2)))]

\* fully_shaded_len without the `.abs()` on 1.0 / tan
fully_shaded_len_frame_no_abs(a1, a2, th) ==
    LET t == Tan(Into(th))
    IN  IF approx_equal(F64(t), F64(Zero(0)))
        THEN [tan |-> t, branch |-> "infinite", ret |-> INFINITY]
        ELSE [tan |-> t, branch |-> "finite",
              ret |-> FMul(FDiv(One, t), FSub(Into(a1), Into(a2)))]

\* fully_shaded_len with the `.abs()` taken of the whole product
fully_shaded_len_frame_abs_product(a1, a2, th) ==
    LET t == Tan(Into(th))
    IN  IF approx_equal(F64(t), F64(Zero(0)))
        THEN [tan |-> t, branch |-> "infinite", ret |-> INFINITY]
        ELSE [tan |-> t, branch |-> "finite",
              ret |-> FAbs(FMul(FDiv(One, t), FSub(Into(a1), Into(a2))))]

\* fully_shaded_len without the zero-tangent branch
fully_shaded_len_frame_no_branch(a1, a2, th) ==
    LET t == Tan(Into(th))
    IN  [tan |-> t, branch |-> "finite",
         ret |-> FMul(FAbs(FDiv(One, t)), FSub(Into(a1), Into(a2)))]

\* fully_shaded_len multiplying by tan instead of by 1.0 / tan
fully_shaded_len_frame_no_reciprocal(a1, a2, th) ==
    LET t == Tan(Into(th))
    IN  IF approx_equal(F64(t), F64(Zero(0)))
        THEN [tan |-> t, branch |-> "infinite", ret |-> INFINITY]
        ELSE [tan |-> t, branch |-> "finite",
              ret |-> FMul(FAbs(t), FSub(Into(a1), Into(a2)))]

\* fully_shaded_len with its local `tan` and the branch it takes
fully_shaded_len_frame(a1, a2, th) ==
    LET t == Tan(Into(th))
    IN  IF approx_equal(F64(t), F64(Zero(0)))
        THEN [tan |-> t, branch |-> "infinite", ret |-> INFINITY]
        ELSE [tan |-> t, branch |-> "finite",
              ret |-> FMul(FAbs(FDiv(One, t)), FSub(Into(a1), Into(a2)))]

fully_shaded_len(a1, a2, th) == fully_shaded_len_frame(a1, a2, th).ret

\* fully_shaded_area passing the heights on in the wrong order
fully_shaded_area_swapped(l, a1, a2, th) == FMul(Into(l), fully_shaded_len(a2, a1, th))

fully_shaded_area(l, a1, a2, th) == FMul(Into(l), fully_shaded_len(a1, a2, th))

\* deg_to_rad without the conversion
deg_to_rad_identity(deg) == Into(deg)

\* f64::to_radians: self * (PI / 180.0)
deg_to_rad(deg) == FMul(Into(deg), RadsPerDeg)

\* The degrees entry point for the shadow length.  lib.rs holds no code for
\* it; it is modelled from the specification's description of the operation:
\* convert the angle with deg_to_rad, then delegate to the radians form.
fully_shaded_len_deg(a1, a2, deg) == fully_shaded_len(a1, a2, F64(deg_to_rad(deg)))

(***************************************************************************)
(* Inputs.  Each table lists sample arguments; the first Num... entries    *)
(* are the ones a run draws from.                                          *)
(***************************************************************************)
HeightTable ==
  << I32(1000), I32(100),                      \* the tests' integer heights
     F64(Fin(0, <<0, 0, 0, 2000>>, 0 - 43)),   \* 1000.0, the tests' float heights
     F64(Fin(0, <<0, 0, 0, 1600>>, 0 - 46)),   \* 100.0
     I32(0),
     F64(Fin(0, <<9830, 6553, 9830, 1433>>, 0 - 53)),   \* 0.7
     F64(Fin(0, <<0, 0, 11520, 1220>>, 0 - 29)),        \* 1e7
     F64(MAX),
     F64(Fin(1, <<16383, 16383, 16383, 2047>>, MaxExp)), \* -f64::MAX
     F64(MinPositive),
     F64(Fin(1, <<0, 0, 0, 1536>>, 0 - 51)) >>          \* -3.0

NumHeights == 10

Heights == {HeightTable[i] : i \in 1..NumHeights}

\* angles in radians
AngleTable ==
  << I32(0),                                   \* tests: theta = 0
     F64(Fin(0, PiMant, 0 - 53)),              \* tests: PI / 4.0
     F64(Fin(0, PiMant, 0 - 52)),              \* tests: PI / 2.0
     F64(PI),                                  \* tests: PI
     F64(Fin(0, PiMant, 0 - 50)),              \* 2.0 * PI
     F64(Fin(1, PiMant, 0 - 53)),              \* -PI / 4.0
     F64(Tolerance),                           \* 1e-10: tan = 1e-10 exactly
     F64(Fin(1, <<15803, 10078, 3581, 1759>>, 0 - 86)),   \* -1e-10
     \* 9.999999999999999e-11, the largest f64 below 1e-10
     F64(Fin(0, <<15802, 10078, 3581, 1759>>, 0 - 86)),
     F64(Zero(1)),                             \* -0.0
     \* 1e6 * PI = 3141592.653589793: tan = -2.23e-10
     F64(Fin(0, <<5265, 3747, 16069, 1533>>, 0 - 31)),
     \* 22.776546738526 (45 degrees + 7 * 180 degrees): tan = 1.0 exactly
     F64(Fin(0, <<2270, 4471, 11452, 1457>>, 0 - 48)),
     \* 3.0 * PI / 4.0 = 2.356194490192345
     F64(Fin(0, <<8658, 15564, 6087, 1206>>, 0 - 51)) >>

NumAngles == 12

Angles == {AngleTable[i] : i \in 1..NumAngles}

\* angles in degrees
DegreeTable ==
  << I32(45), I32(0), I32(90), I32(180),
     F64(Fin(1, <<0, 0, 0, 1440>>, 0 - 47)),   \* -45.0
     I32(360), I32(135) >>

NumDegrees == 6

Degrees == {DegreeTable[i] : i \in 1..NumDegrees}

\* run lengths
LenTable ==
  << I32(10), I32(0),
     F64(Fin(1, <<0, 0, 0, 1536>>, 0 - 51)),   \* -3.0
     F64(Fin(0, <<0, 0, 0, 1280>>, 0 - 49)) >> \* 10.0

NumLens == 3

Lens == {LenTable[i] : i \in 1..NumLens}

\* the values the tests compare a result with (assert_approx)
ExpectedTable == << I32(900), I32(9000), I32(0), F64(Tolerance), I32(1) >>

NumExpected == 4

Expected == {ExpectedTable[i] : i \in 1..NumExpected}

(***************************************************************************)
(* State: one caller of the library.  It holds its arguments, calls one    *)
(* of the entry points, and may then compare the result with an expected   *)
(* value as the tests do.                                                  *)
(***************************************************************************)
VARIABLES
    pc,          \* "start", "len", "area", "len_deg" or "cmp" (after assert_approx)
    h1, h2,      \* the height arguments
    angle,       \* the angle argument
    unit,        \* "rad" or "deg": the unit the caller holds the angle in
    len,         \* the run length passed to fully_shaded_area
    tan,         \* fully_shaded_len's local `tan`
    branch,      \* "infinite" or "finite": the branch fully_shaded_len took
    shadow_len,  \* what fully_shaded_len returned
    area,        \* what fully_shaded_area returned
    one, two,    \* the arguments of approx_equal
    eq           \* what approx_equal returned

vars == <<pc, h1, h2, angle, unit, len, tan, branch, shadow_len, area, one, two, eq>>

NoValue == [k |-> "none", s |-> 0, m |-> << >>, e |-> 0]

NoArg == [t |-> "none", v |-> 0]

Init ==
    /\ pc = "start"
    /\ h1 \in Heights
    /\ h2 \in Heights
    /\ \/ unit = "rad" /\ angle \in Angles
       \/ unit = "deg" /\ angle \in Degrees
    /\ len = NoArg
    /\ tan = NoValue
    /\ branch = "none"
    /\ shadow_len = NoValue
    /\ area = NoValue
    /\ one = NoArg
    /\ two = NoArg
    /\ eq = "none"

\* let x = deg_to_rad(d): the caller converts its angle
DegToRad ==
    /\ pc = "start"
    /\ unit = "deg"
    /\ angle' = F64(deg_to_rad(angle))
    /\ unit' = "rad"
    /\ UNCHANGED <<pc, h1, h2, len, tan, branch, shadow_len, area, one, two, eq>>

\* fully_shaded_len(h1, h2, theta)
FullyShadedLen ==
    /\ pc = "start"
    /\ unit = "rad"
    /\ LET f == fully_shaded_len_frame(h1, h2, angle)
       IN  /\ tan' = f.tan
           /\ branch' = f.branch
           /\ shadow_len' = f.ret
    /\ pc' = "len"
    /\ UNCHANGED <<h1, h2, angle, unit, len, area, one, two, eq>>

\* fully_shaded_area(len, h1, h2, theta)
FullyShadedArea ==
    /\ pc = "start"
    /\ unit = "rad"
    /\ \E l \in Lens :
         /\ len' = l
         /\ area' = fully_shaded_area(l, h1, h2, angle)
    /\ LET f == fully_shaded_len_frame(h1, h2, angle)
       IN  /\ tan' = f.tan
           /\ branch' = f.branch
           /\ shadow_len' = f.ret
    /\ pc' = "area"
    /\ UNCHANGED <<h1, h2, angle, unit, one, two, eq>>

\* the degrees entry point
FullyShadedLenDeg ==
    /\ pc = "start"
    /\ unit = "deg"
    /\ shadow_len' = fully_shaded_len_deg(h1, h2, angle)
    /\ pc' = "len_deg"
    /\ UNCHANGED <<h1, h2, angle, unit, len, tan, branch, area, one, two, eq>>

\* assert_approx(result, expected): approx_equal on the returned value
ApproxEqual ==
    /\ pc \in {"len", "area"}
    /\ one' = F64(IF pc = "len" THEN shadow_len ELSE area)
    /\ \E x \in Expected :
         /\ two' = x
         /\ eq' = approx_equal(one', x)
    /\ pc' = "cmp"
    /\ UNCHANGED <<h1, h2, angle, unit, len, tan, branch, shadow_len, area>>

Next ==
    \/ DegToRad
    \/ FullyShadedLen
    \/ FullyShadedArea
    \/ FullyShadedLenDeg
    \/ ApproxEqual

Spec == Init /\ [][Next]_vars

(***************************************************************************)
(* Properties.                                                             *)
(***************************************************************************)
\* the radians form has just returned: its frame is in tan, branch and
\* shadow_len (a later approx_equal leaves them as they are)
Called == pc \in {"len", "area"}

\* h1 - h2 as the function computes it
HeightDiff == FSub(Into(h1), Into(h2))

\* abs(tan) < 1e-10
TanNearZero == FLt(FAbs(tan), Tolerance)

\* -1, 0 or 1: the sign of a value that is not NaN (both zeros have sign 0)
Sign(x) == IF IsZero(x) THEN 0 ELSE IF x.s = 1 THEN 0 - 1 ELSE 1

\* -1, 0 or 1 as h1 < h2, h1 == h2 or h1 > h2
HeightOrder ==
    IF FLt(Into(h1), Into(h2)) THEN 0 - 1
    ELSE IF FLt(Into(h2), Into(h1)) THEN 1 ELSE 0

\* the tests' heights, as integers or as floats: h1 = 1000, h2 = 100
TestHeights == Into(h1) = FromInt(1000) /\ Into(h2) = FromInt(100)

QuarterPi == Fin(0, PiMant, 0 - 53)

HalfPi == Fin(0, PiMant, 0 - 52)

TwoPi == Fin(0, PiMant, 0 - 50)

\* 1e10 = 1.0 / 1e-10
TenToThe10 == Fin(0, <<0, 0, 1522, 1192>>, 0 - 19)

\* 1e6
TenToThe6 == Fin(0, <<0, 0, 2048, 1953>>, 0 - 33)

\* 1e298: beyond it 1e10 * x can overflow
TenToThe298 == Fin(0, <<3148, 12454, 3205, 1957>>, 937)

\* 1e-290
TenToTheMinus290 == Fin(0, <<8306, 1722, 11014, 1596>>, 0 - 1016)

(* C1: fully_shaded_len returns positive infinity whenever the tangent of   *)
(* the angle is approximately zero (in particular at 0, -0, pi and 2*pi),   *)
(* whatever the heights are: equal, h2 above h1 or h1 above h2.             *)
C1_InfiniteAtMultiplesOf180 ==
    Called =>
        /\ TanNearZero => shadow_len = INFINITY
        /\ Into(angle) \in {Zero(0), Zero(1), PI, TwoPi} => shadow_len = INFINITY

\* theta = pi with the person taller than the obstruction
C1_Witness ==
    /\ pc = "len"
    /\ Into(angle) = PI
    /\ HeightOrder = 0 - 1
    /\ TanNearZero
    /\ shadow_len = INFINITY

(* C2: when the tangent is not approximately zero the result is             *)
(* abs(1 / tan) * (h1 - h2); when the tangent is 1 this is h1 - h2 itself;  *)
(* at pi / 4 heights 1000 and 100, integer or float, give 900 (as the       *)
(* tests compare: within 1e-10).                                            *)
C2_FiniteBranchFormula ==
    Called /\ ~TanNearZero =>
        /\ shadow_len = FMul(FAbs(FDiv(One, tan)), HeightDiff)
        /\ tan = One => shadow_len = HeightDiff
        /\ Into(angle) = QuarterPi /\ TestHeights
             => approx_equal(F64(shadow_len), I32(900))

\* tangent exactly 1, an integer and a float height: the result is exactly 900
C2_Witness ==
    /\ pc = "len"
    /\ tan = One
    /\ h1 = I32(1000)
    /\ h2 = F64(FromInt(100))
    /\ shadow_len = FromInt(900)

(* C3, as stated: for finite inputs fully_shaded_len returns a finite value  *)
(* or positive infinity, never NaN and never negative infinity.             *)
C3_FiniteOrPositiveInfinity ==
    Called => IsFinite(shadow_len) \/ shadow_len = INFINITY

(* C3, amended: for finite inputs fully_shaded_len returns an f64 that is   *)
(* never NaN: a finite value, positive infinity, or negative infinity, the  *)
(* last only when h1 < h2 and h1 - h2, or its product with abs(1 / tan),    *)
(* overflows, which needs abs(h1 - h2) above 1e298.                         *)
C3_NeverNaN ==
    Called =>
        /\ shadow_len.k \in {"fin", "inf"}
        /\ ~IsNaN(shadow_len)
        /\ shadow_len = Inf(1) =>
             /\ HeightOrder = 0 - 1
             /\ ~TanNearZero
             /\ FLt(TenToThe298, FAbs(HeightDiff))

\* h1 = -f64::MAX below h2: the product overflows to negative infinity
C3_Witness ==
    /\ pc = "len"
    /\ IsFinite(Into(h1)) /\ IsFinite(Into(h2)) /\ IsFinite(Into(angle))
    /\ shadow_len = Inf(1)

(* C4: whenever fully_shaded_len is finite, fully_shaded_area(L, h1, h2,    *)
(* theta) is L * fully_shaded_len(h1, h2, theta); L = 10, heights 1000 and  *)
(* 100 at pi / 4 give 9000 (within 1e-10).                                  *)
C4_AreaIsRunLengthTimesLen ==
    pc = "area" /\ IsFinite(shadow_len) =>
        /\ area = FMul(Into(len), shadow_len)
        /\ Into(len) = FromInt(10) /\ TestHeights /\ Into(angle) = QuarterPi
             => approx_equal(F64(area), I32(9000))

\* the tests' call: fully_shaded_area(10, 1000, 100, PI / 4.0)
C4_Witness ==
    /\ pc = "area"
    /\ len = I32(10)
    /\ h1 = I32(1000)
    /\ h2 = I32(100)
    /\ Into(angle) = QuarterPi
    /\ IsFinite(shadow_len)
    /\ approx_equal(F64(area), I32(9000))

(* C5: whenever the tangent of the angle is approximately zero,             *)
(* fully_shaded_area returns positive infinity, for any finite run length,  *)
(* zero and negative run lengths included.                                  *)
C5_AreaInfiniteAtZeroTangent ==
    pc = "area" /\ TanNearZero => area = INFINITY

(* C6, as stated: when the tangent is not approximately zero the result is  *)
(* negative exactly when h2 > h1, zero exactly when h1 == h2 and positive   *)
(* exactly when h1 > h2.                                                    *)
C6_SignIsSignOfDifference ==
    Called /\ ~TanNearZero => Sign(shadow_len) = HeightOrder

(* C6, amended: when the tangent is not approximately zero the result is    *)
(* not clamped and never has the sign opposite to h1 - h2: it is negative   *)
(* only when h2 > h1, positive only when h1 > h2, zero when h1 == h2, and   *)
(* for h1 /= h2 it is zero only when the product underflows, which needs    *)
(* abs(h1 - h2) below 1e-290.                                               *)
C6_SignNeverOpposite ==
    Called /\ ~TanNearZero =>
        /\ Sign(shadow_len) \in {0, HeightOrder}
        /\ FLe(TenToTheMinus290, FAbs(HeightDiff)) => Sign(shadow_len) = HeightOrder

\* a negative tangent and h2 > h1: the result is negative
C6_Witness ==
    /\ pc = "len"
    /\ ~TanNearZero
    /\ FLt(tan, Zero(0))
    /\ HeightOrder = 0 - 1
    /\ Sign(shadow_len) = 0 - 1

\* within 1e-10 of zero, as assert_approx(x, 0) tests it
ApproxZero(x) == approx_equal(F64(x), I32(0))

(* C7, as stated: at pi / 2 fully_shaded_len is within 1e-10 of zero, and   *)
(* so is fully_shaded_area.                                                 *)
C7_ApproxZeroAt90 ==
    Called /\ Into(angle) = HalfPi =>
        /\ ApproxZero(shadow_len)
        /\ area # NoValue => ApproxZero(area)

(* C7, amended: at pi / 2 the tangent is 1.6e16, not infinite, so the       *)
(* length is 6.1e-17 * (h1 - h2): it is within 1e-10 of zero when           *)
(* abs(h1 - h2) <= 1e6, and the area is when abs(L * (h1 - h2)) <= 1e6,     *)
(* which covers the tested h1 = 1000, h2 = 100, L = 10.                     *)
C7_ApproxZeroAt90ForModestHeights ==
    Called /\ Into(angle) = HalfPi =>
        /\ FLe(FAbs(HeightDiff), TenToThe6) => ApproxZero(shadow_len)
        /\ area # NoValue /\ FLe(FAbs(FMul(Into(len), HeightDiff)), TenToThe6)
             => ApproxZero(area)
        /\ TestHeights => ApproxZero(shadow_len)
        /\ TestHeights /\ len = I32(10) => ApproxZero(area)

\* the tests' call fully_shaded_area(10, 1000, 100, PI / 2.0): small, not zero
C7_Witness ==
    /\ pc = "area"
    /\ Into(angle) = HalfPi
    /\ TestHeights
    /\ len = I32(10)
    /\ ApproxZero(shadow_len) /\ ~IsZero(shadow_len)
    /\ ApproxZero(area) /\ ~IsZero(area)

\* two results agree: within 1e-10 when finite, the same infinity otherwise
Agree(x, y) ==
    IF IsFinite(x) /\ IsFinite(y) THEN approx_equal(F64(x), F64(y)) ELSE x = y

\* the angles the tests use, in degrees and as the radians the tests pass
DegreesAsRadians ==
    { <<FromInt(0), Zero(0)>>, <<FromInt(45), QuarterPi>>,
      <<FromInt(90), HalfPi>>, <<FromInt(180), PI>> }

WithinTolerance == FLt(FAbs(FSub(Into(one), Into(two))), Tolerance)

(* C9, as stated: approx_equal is true iff abs(a - b) < 1e-10, strictly;    *)
(* the infinity branch is taken iff the tangent is approximately zero; a    *)
(* tangent of exactly 1e-10 or -1e-10 yields a finite result, an absolute   *)
(* tangent below 1e-10 positive infinity.                                   *)
C9_ThresholdTangentYieldsFinite ==
    /\ pc = "cmp" => (eq <=> WithinTolerance)
    /\ Called =>
         /\ branch = "infinite" <=> TanNearZero
         /\ FAbs(tan) = Tolerance => IsFinite(shadow_len)
         /\ TanNearZero => shadow_len = INFINITY

(* C9, amended: as stated, except that a tangent of exactly 1e-10 or -1e-10 *)
(* takes the finite branch, giving 1e10 * (h1 - h2), which is finite when   *)
(* abs(h1 - h2) <= 1e298 and overflows to an infinity for larger heights.   *)
C9_ThresholdTangentTakesFiniteBranch ==
    /\ pc = "cmp" => (eq <=> WithinTolerance)
    /\ Called =>
         /\ branch = "infinite" <=> TanNearZero
         /\ FAbs(tan) = Tolerance =>
              /\ branch = "finite"
              /\ shadow_len = FMul(TenToThe10, HeightDiff)
              /\ FLe(FAbs(HeightDiff), TenToThe298) => IsFinite(shadow_len)
         /\ TanNearZero => shadow_len = INFINITY

\* tangent exactly -1e-10: the finite branch, with a finite non-zero result
C9_Witness ==
    /\ pc = "len"
    /\ tan = FNeg(Tolerance)
    /\ branch = "finite"
    /\ IsFinite(shadow_len)
    /\ ~IsZero(shadow_len)

(* C10: whenever the result of fully_shaded_len is finite, its magnitude is *)
(* at most 1e10 * abs(h1 - h2), both sides computed in f64.                 *)
C10_FiniteResultBounded ==
    Called /\ IsFinite(shadow_len) =>
        FLe(FAbs(shadow_len), FMul(TenToThe10, FAbs(HeightDiff)))

\* tangent exactly 1e-10: the bound is attained
C10_Witness ==
    /\ pc = "len"
    /\ tan = Tolerance
    /\ IsFinite(shadow_len)
    /\ ~IsZero(shadow_len)
    /\ FAbs(shadow_len) = FMul(TenToThe10, FAbs(HeightDiff))

=============================================================================
